---- MODULE Spec2Model ----
(***************************************************************************)
(* Name-Registration: the contact list of src/App.tsx.                     *)
(*                                                                         *)
(* A string is a sequence of UTF-16 code units (integers); a Contact is a  *)
(* record [name, phone] of two strings; indices are 0-based as in the      *)
(* source, so the record at index i is contacts[i + 1].                    *)
(***************************************************************************)
EXTENDS Integers, Sequences, FiniteSets, TLC

VARIABLES
  contacts,       \* useState<Contact[]>            (App.tsx:12)
  inputValue,     \* useState<string>, the textarea (App.tsx:22)
  error,          \* useState<string>, diagnostic   (App.tsx:23)
  editingIndex,   \* useState<number | null>        (App.tsx:24)
  editedContact,  \* useState<Contact>              (App.tsx:25)
  editError,      \* useState<{name?, phone?}>      (App.tsx:26)
  storage,        \* localStorage item 'contacts'   (App.tsx:28-34)
  last            \* history: the handler that ran last, with the state it read

vars == <<contacts, inputValue, error, editingIndex, editedContact, editError,
          storage, last>>

----------------------------------------------------------------------------
(* Bounds of the model. *)

MaxLines == 2       \* lines of one pasted text
MaxContacts == 3    \* size of the collection

----------------------------------------------------------------------------
(* Character classes of the regular expressions. *)

\* [0-9]; \D is its complement
isDigit(c) == c \in 48..57

\* \s, and the code units String.prototype.trim removes
isWhiteSpace(c) ==
  c \in {9, 10, 11, 12, 13, 32, 160, 5760, 8232, 8233, 8239, 8287, 12288, 65279}
        \cup (8192..8202)

\* [a-zA-Z]
isLatin(c) == c \in (65..90) \cup (97..122)

\* [\u0600-\u06FF]
isArabic(c) == c \in 1536..1791

\* [0-9\s-]
inPhoneClass(c) == isDigit(c) \/ isWhiteSpace(c) \/ c = 45

\* the class kept by /[^a-zA-Z\u0600-\u06FF\s]/g
inNameClass(c) == isLatin(c) \/ isArabic(c) \/ isWhiteSpace(c)

----------------------------------------------------------------------------
(* String helpers of the JavaScript runtime, as the handlers use them. *)

RECURSIVE trimStart(_)
trimStart(s) ==
  IF s = <<>> THEN s
  ELSE IF isWhiteSpace(Head(s)) THEN trimStart(Tail(s)) ELSE s

RECURSIVE trimEnd(_)
trimEnd(s) ==
  IF s = <<>> THEN s
  ELSE IF isWhiteSpace(s[Len(s)]) THEN trimEnd(SubSeq(s, 1, Len(s) - 1)) ELSE s

\* String.prototype.trim
trim(s) == trimEnd(trimStart(s))

\* inputValue.split('\n')
RECURSIVE split(_)
split(s) ==
  IF \E i \in 1..Len(s) : s[i] = 10
  THEN LET i == CHOOSE k \in 1..Len(s) :
                  s[k] = 10 /\ \A j \in 1..(k - 1) : s[j] # 10
       IN  <<SubSeq(s, 1, i - 1)>> \o split(SubSeq(s, i + 1, Len(s)))
  ELSE <<s>>

\* the minimum repetition count {7,} of the phone pattern
MinPhoneRun == 7

\* the greedy quantifier: how many class characters follow from position i
RECURSIVE runLength(_, _)
runLength(s, i) ==
  IF i > Len(s) \/ ~inPhoneClass(s[i]) THEN 0 ELSE 1 + runLength(s, i + 1)

\* faulty variant: the leading '+' counts towards the 7
matchAt_countPlus(s, i) ==
  IF s[i] = 43 /\ 1 + runLength(s, i + 1) >= 7
  THEN 1 + runLength(s, i + 1)
  ELSE IF runLength(s, i) >= 7 THEN runLength(s, i) ELSE 0

\* length of the match of /\+?[0-9\s-]{7,}/ anchored at position i, 0 if none
matchAt(s, i) ==
  IF s[i] = 43 /\ runLength(s, i + 1) >= MinPhoneRun
  THEN 1 + runLength(s, i + 1)
  ELSE IF runLength(s, i) >= MinPhoneRun THEN runLength(s, i) ELSE 0

\* line.match(/\+?[0-9\s-]{7,}/): the leftmost match, or null (found = FALSE)
RECURSIVE matchFrom(_, _)
matchFrom(s, i) ==
  IF i > Len(s) THEN [found |-> FALSE, text |-> <<>>]
  ELSE IF matchAt(s, i) > 0
       THEN [found |-> TRUE, text |-> SubSeq(s, i, i + matchAt(s, i) - 1)]
       ELSE matchFrom(s, i + 1)

phoneMatch(line) == matchFrom(line, 1)

\* faulty variant: the phone keeps its punctuation
stripNonDigits_keepAll(s) == s

\* replace(/\D/g, '')
stripNonDigits(s) == SelectSeq(s, isDigit)

occursAt(s, p, i) ==
  i + Len(p) - 1 <= Len(s) /\ SubSeq(s, i, i + Len(p) - 1) = p

\* line.replace(phoneRaw, ''): a string pattern removes its first occurrence
removeFirst(s, p) ==
  IF \E i \in 1..Len(s) : occursAt(s, p, i)
  THEN LET i == CHOOSE k \in 1..Len(s) :
                  occursAt(s, p, k) /\ \A j \in 1..(k - 1) : ~occursAt(s, p, j)
       IN  SubSeq(s, 1, i - 1) \o SubSeq(s, i + Len(p), Len(s))
  ELSE s

\* nameRaw.replace(/[^a-zA-Z\u0600-\u06FF\s]/g, '').trim()
cleanName(nameRaw) == trim(SelectSeq(nameRaw, inNameClass))

----------------------------------------------------------------------------
(* a.name.localeCompare(b.name, 'ar'): the collation of the runtime.  Strings *)
(* compare by the sequence of primary weights (white space, then other      *)
(* punctuation, then digits, then Latin letters regardless of case, then    *)
(* the Arabic block); strings with equal primary weights compare by case,   *)
(* lower case first.  The result is -1, 0 or 1.                             *)

primaryWeight(c) ==
  IF isWhiteSpace(c) THEN c
  ELSE IF isDigit(c) THEN 200000 + c
  ELSE IF isLatin(c) THEN 300000 + ((c - 65) % 32)
  ELSE IF isArabic(c) THEN 400000 + c
  ELSE 100000 + c

tertiaryWeight(c) == IF c \in 65..90 THEN 1 ELSE 0

RECURSIVE compareKeys(_, _)
compareKeys(k1, k2) ==
  IF k1 = <<>> THEN (IF k2 = <<>> THEN 0 ELSE -1)
  ELSE IF k2 = <<>> THEN 1
  ELSE IF Head(k1) < Head(k2) THEN -1
  ELSE IF Head(k1) > Head(k2) THEN 1
  ELSE compareKeys(Tail(k1), Tail(k2))

localeCompare(a, b) ==
  LET p == compareKeys([i \in 1..Len(a) |-> primaryWeight(a[i])],
                       [i \in 1..Len(b) |-> primaryWeight(b[i])])
  IN  IF p # 0 THEN p
      ELSE compareKeys([i \in 1..Len(a) |-> tertiaryWeight(a[i])],
                       [i \in 1..Len(b) |-> tertiaryWeight(b[i])])

\* the comparator (a, b) => a.name.localeCompare(b.name, 'ar')
byName(a, b) == localeCompare(a.name, b.name)

\* Array.prototype.sort is stable: an element goes after those not greater
RECURSIVE insertSorted(_, _)
insertSorted(sorted, c) ==
  IF sorted = <<>> THEN <<c>>
  ELSE IF byName(Head(sorted), c) <= 0
       THEN <<Head(sorted)>> \o insertSorted(Tail(sorted), c)
       ELSE <<c>> \o sorted

RECURSIVE sortFrom(_, _)
sortFrom(sorted, rest) ==
  IF rest = <<>> THEN sorted
  ELSE sortFrom(insertSorted(sorted, Head(rest)), Tail(rest))

\* faulty variant: the collection is left in insertion order
sortByName_unsorted(cs) == cs

\* updatedContacts.sort((a, b) => a.name.localeCompare(b.name, 'ar'))
sortByName(cs) == sortFrom(<<>>, cs)

----------------------------------------------------------------------------
(* handleAddContacts: the batch import. *)

\* the diagnostics of setError, by what they say
ErrEmptyInput == "empty input"
ErrNoNewData == "no new valid data"

\* new Set(contacts.map(c => c.phone))
phonesOf(cs) == {cs[i].phone : i \in 1..Len(cs)}

\* faulty variant: no look-up in existingPhones
acceptLine_noDedup(nameClean, phoneClean, existingPhones) ==
  nameClean # <<>> /\ phoneClean # <<>>

\* faulty variant: an empty cleaned name is accepted
acceptLine_anyName(nameClean, phoneClean, existingPhones) ==
  phoneClean # <<>> /\ phoneClean \notin existingPhones

\* if (nameClean && phoneClean && !existingPhones.has(phoneClean))
acceptLine(nameClean, phoneClean, existingPhones) ==
  nameClean # <<>> /\ phoneClean # <<>> /\ phoneClean \notin existingPhones

\* lines.forEach(line => ...), with its two accumulators
RECURSIVE forEachLine(_, _, _)
forEachLine(lines, newContacts, existingPhones) ==
  IF lines = <<>> THEN newContacts
  ELSE LET line == Head(lines)
           m == phoneMatch(line)
           phoneRaw == m.text
           phoneClean == stripNonDigits(phoneRaw)
           nameRaw == removeFirst(line, phoneRaw)
           nameClean == cleanName(nameRaw)
       IN  IF trim(line) = <<>> \/ ~m.found
           THEN forEachLine(Tail(lines), newContacts, existingPhones)
           ELSE IF acceptLine(nameClean, phoneClean, existingPhones)
                THEN forEachLine(Tail(lines),
                                 Append(newContacts,
                                        [name |-> nameClean, phone |-> phoneClean]),
                                 existingPhones \cup {phoneClean})
                ELSE forEachLine(Tail(lines), newContacts, existingPhones)

\* faulty variant: the text is tested without trimming
isBlankInput_noTrim(text) == text = <<>>

\* faulty variant: the new records replace the collection
appendNew_onlyNew(cs, newContacts) == newContacts

\* [...contacts, ...newContacts]
appendNew(cs, newContacts) == cs \o newContacts

\* if (!inputValue.trim())
isBlankInput(text) == trim(text) = <<>>

----------------------------------------------------------------------------
(* handleSave: the validation of an edit. *)

\* the messages of newErrors, by what they say; "" is an absent key
ErrNameEmpty == "name empty"
ErrPhoneEmpty == "phone empty"
ErrPhoneShort == "phone too short"
ErrPhoneTaken == "phone already exists"

\* trimmedPhone.length < 7
MinPhoneLength == 7

\* faulty variant: no duplicate check
phoneTaken_never(cs, trimmedPhone, indexToSave) == FALSE

\* contacts.some((c, i) => c.phone === trimmedPhone && i !== indexToSave)
phoneTaken(cs, trimmedPhone, indexToSave) ==
  \E i \in 0..(Len(cs) - 1) : cs[i + 1].phone = trimmedPhone /\ i # indexToSave

\* if (!trimmedName)
nameError(trimmedName) == IF trimmedName = <<>> THEN ErrNameEmpty ELSE ""

\* faulty variant: no minimum length
phoneError_noMinimum(cs, trimmedPhone, indexToSave) ==
  IF trimmedPhone = <<>> THEN "phone empty"
  ELSE IF \E i \in 0..(Len(cs) - 1) : cs[i + 1].phone = trimmedPhone /\ i # indexToSave
       THEN "phone already exists"
       ELSE ""

\* if (!trimmedPhone) ... else if (length < 7) ... else if (contacts.some(...))
phoneError(cs, trimmedPhone, indexToSave) ==
  IF trimmedPhone = <<>> THEN ErrPhoneEmpty
  ELSE IF Len(trimmedPhone) < MinPhoneLength THEN ErrPhoneShort
  ELSE IF phoneTaken(cs, trimmedPhone, indexToSave) THEN ErrPhoneTaken
  ELSE ""

\* Object.keys(newErrors).length > 0
hasErrors(newErrors) == newErrors.name # "" \/ newErrors.phone # ""

\* faulty variant: the phone field keeps what was typed
editedValue_raw(field, value) == value

\* name === 'phone' ? value.replace(/\D/g, '') : value
editedValue(field, value) ==
  IF field = "phone" THEN stripNonDigits(value) ELSE value

----------------------------------------------------------------------------
(* The state after construction, and the inputs of the handlers. *)

\* editingIndex === null
NULL == -1

NoContact == [name |-> <<>>, phone |-> <<>>]
NoErrors == [name |-> "", phone |-> ""]

\* what the last handler read and decided
Hist(op, result, cs, text, idx, edited, new) ==
  [op |-> op, result |-> result, contacts |-> cs, inputValue |-> text,
   editingIndex |-> idx, editedContact |-> edited, newContacts |-> new]

Quiet(op) == Hist(op, "", <<>>, <<>>, NULL, NoContact, <<>>)

\* lines a user pastes
LineA == <<97, 32, 49, 50, 51, 52, 53, 54, 55>>                 \* "a 1234567"
LineB == <<66, 32, 49, 50, 51, 45, 52, 53, 54, 55>>             \* "B 123-4567"
LineArabic == <<1576, 44, 32, 43, 55, 54, 53, 52, 51, 50, 49>>  \* beh ", +7654321"
LineHyphens == <<97, 32, 45, 45, 45, 45, 45, 45, 45>>           \* "a -------"
LineOneDigit == <<98, 32, 49, 45, 45, 45, 45, 45, 45>>          \* "b 1------"
LinePlusSix == <<97, 32, 43, 49, 50, 51, 52, 53, 54>>           \* "a +123456"
LineNoName == <<33, 32, 55, 54, 53, 52, 51, 50, 49>>            \* "! 7654321"
LineBlank == <<32>>                                             \* " "

Lines == {LineA, LineB, LineArabic, LineHyphens, LineOneDigit, LinePlusSix,
          LineNoName, LineBlank}

RECURSIVE joinLines(_)
joinLines(ls) ==
  IF ls = <<>> THEN <<>>
  ELSE IF Len(ls) = 1 THEN ls[1]
  ELSE ls[1] \o <<10>> \o joinLines(Tail(ls))

Texts == {joinLines(ls) : ls \in UNION {[1..n -> Lines] : n \in 0..MaxLines}}

\* texts pasted while rows are also edited: single lines, and one pair
PastedTexts == {LineA, LineArabic, LineOneDigit, joinLines(<<LineArabic, LineA>>)}

\* values a user types into the two fields of the row being edited
TypedNames == {<<32>>, <<32, 66, 33, 32>>}                       \* " ", " B! "
TypedPhones == {<<>>, <<49, 50, 51, 52, 53, 54>>,                \* "", "123456",
                <<49, 50, 51, 45, 52, 53, 54, 55>>}              \* "123-4567"

\* the first render with no item 'contacts' in localStorage; the effect then
\* stores the empty collection
Init ==
  /\ contacts = <<>>
  /\ inputValue = <<>>
  /\ error = ""
  /\ editingIndex = NULL
  /\ editedContact = NoContact
  /\ editError = NoErrors
  /\ storage = <<>>
  /\ last = Quiet("init")

----------------------------------------------------------------------------
(* The handlers.  Every handler that replaces contacts is followed by the   *)
(* effect that writes the collection to localStorage.                       *)

\* the textarea's onChange; the textarea is disabled while a row is edited
onInputChange(value) ==
  /\ editingIndex = NULL
  /\ inputValue' = value
  /\ error' = ""
  /\ last' = Quiet("input")
  /\ UNCHANGED <<contacts, editingIndex, editedContact, editError, storage>>

handleAddContacts ==
  /\ editingIndex = NULL
  /\ IF isBlankInput(inputValue)
     THEN /\ error' = ErrEmptyInput
          /\ last' = Hist("add", "empty", contacts, inputValue, NULL, NoContact, <<>>)
          /\ UNCHANGED <<contacts, inputValue, storage>>
     ELSE LET lines == split(inputValue)
              newContacts == forEachLine(lines, <<>>, phonesOf(contacts))
              updatedContacts == sortByName(appendNew(contacts, newContacts))
          IN  /\ Len(contacts) + Len(newContacts) <= MaxContacts
              /\ last' = Hist("add", IF Len(newContacts) = 0 THEN "none" ELSE "ok",
                              contacts, inputValue, NULL, NoContact, newContacts)
              /\ IF Len(newContacts) = 0
                 THEN /\ error' = ErrNoNewData
                      /\ UNCHANGED <<contacts, inputValue, storage>>
                 ELSE /\ contacts' = updatedContacts
                      /\ storage' = updatedContacts
                      /\ inputValue' = <<>>
                      /\ error' = ""
  /\ UNCHANGED <<editingIndex, editedContact, editError>>

\* the edit button of row index; disabled while a row is edited
handleEdit(index) ==
  /\ editingIndex = NULL
  /\ index \in 0..(Len(contacts) - 1)
  /\ editingIndex' = index
  /\ editedContact' = contacts[index + 1]
  /\ error' = ""
  /\ editError' = NoErrors
  /\ last' = Hist("edit", "", contacts, <<>>, index, NoContact, <<>>)
  /\ UNCHANGED <<contacts, inputValue, storage>>

\* the cancel button, rendered in the row being edited
handleCancel ==
  /\ editingIndex # NULL
  /\ editingIndex' = NULL
  /\ error' = ""
  /\ editError' = NoErrors
  /\ last' = Hist("cancel", "", contacts, <<>>, editingIndex, NoContact, <<>>)
  /\ UNCHANGED <<contacts, inputValue, editedContact, storage>>

\* onChange of the two inputs of the row being edited
handleEditInputChange(field, value) ==
  /\ editingIndex # NULL
  /\ editedContact' = [editedContact EXCEPT ![field] = editedValue(field, value)]
  /\ editError' = [editError EXCEPT ![field] = ""]
  /\ last' = Quiet("type")
  /\ UNCHANGED <<contacts, inputValue, error, editingIndex, storage>>

\* the save button, rendered in the row being edited
handleSave(indexToSave) ==
  /\ editingIndex # NULL
  /\ indexToSave = editingIndex
  /\ LET trimmedName == trim(editedContact.name)
         trimmedPhone == trim(editedContact.phone)
         newErrors == [name |-> nameError(trimmedName),
                       phone |-> phoneError(contacts, trimmedPhone, indexToSave)]
         updatedContacts ==
           sortByName([contacts EXCEPT ![indexToSave + 1] =
                         [name |-> trimmedName, phone |-> trimmedPhone]])
     IN  IF hasErrors(newErrors)
         THEN /\ editError' = newErrors
              /\ last' = Hist("save", "rejected", contacts, <<>>, indexToSave,
                              editedContact, <<>>)
              /\ UNCHANGED <<contacts, error, editingIndex, storage>>
         ELSE /\ contacts' = updatedContacts
              /\ storage' = updatedContacts
              /\ editingIndex' = NULL
              /\ editError' = NoErrors
              /\ error' = ""
              /\ last' = Hist("save", "ok", contacts, <<>>, indexToSave,
                              editedContact, <<>>)
  /\ UNCHANGED <<inputValue, editedContact>>

\* prev.filter((_, index) => index !== indexToDelete)
withoutIndex(cs, indexToDelete) ==
  LET keep == {i \in 0..(Len(cs) - 1) : i # indexToDelete}
      RECURSIVE pick(_)
      pick(i) == IF i >= Len(cs) THEN <<>>
                 ELSE (IF i \in keep THEN <<cs[i + 1]>> ELSE <<>>) \o pick(i + 1)
  IN  pick(0)

\* faulty variant: the delete buttons stay enabled while a row is edited
handleDeleteContact_enabled(indexToDelete, confirmed) ==
  /\ indexToDelete \in 0..(Len(contacts) - 1)
  /\ IF confirmed
     THEN /\ contacts' = withoutIndex(contacts, indexToDelete)
          /\ storage' = withoutIndex(contacts, indexToDelete)
     ELSE UNCHANGED <<contacts, storage>>
  /\ last' = Hist("delete", IF confirmed THEN "ok" ELSE "declined", contacts,
                  <<>>, indexToDelete, NoContact, <<>>)
  /\ UNCHANGED <<inputValue, error, editingIndex, editedContact, editError>>

\* the delete button of row index; confirmed is the answer of window.confirm
handleDeleteContact(indexToDelete, confirmed) ==
  /\ editingIndex = NULL
  /\ indexToDelete \in 0..(Len(contacts) - 1)
  /\ IF confirmed
     THEN /\ contacts' = withoutIndex(contacts, indexToDelete)
          /\ storage' = withoutIndex(contacts, indexToDelete)
     ELSE UNCHANGED <<contacts, storage>>
  /\ last' = Hist("delete", IF confirmed THEN "ok" ELSE "declined", contacts,
                  <<>>, indexToDelete, NoContact, <<>>)
  /\ UNCHANGED <<inputValue, error, editingIndex, editedContact, editError>>

\* the export button, disabled on an empty collection and while a row is
\* edited; the file it writes holds the collection as it is
handleDownload ==
  /\ editingIndex = NULL
  /\ Len(contacts) # 0
  /\ last' = Hist("download", "", contacts, <<>>, NULL, NoContact, <<>>)
  /\ UNCHANGED <<contacts, inputValue, error, editingIndex, editedContact,
                 editError, storage>>

Next ==
  \/ \E value \in PastedTexts : onInputChange(value)
  \/ handleAddContacts
  \/ \E index \in 0..(MaxContacts - 1) : handleEdit(index)
  \/ handleCancel
  \/ \E value \in TypedNames : handleEditInputChange("name", value)
  \/ \E value \in TypedPhones : handleEditInputChange("phone", value)
  \/ \E index \in 0..(MaxContacts - 1) : handleSave(index)
  \/ \E index \in 0..(MaxContacts - 1), confirmed \in BOOLEAN :
       handleDeleteContact(index, confirmed)
  \/ handleDownload

Spec == Init /\ [][Next]_vars

\* the batch import alone, over every text of up to MaxLines lines
NextBatch ==
  \/ \E value \in Texts : onInputChange(value)
  \/ handleAddContacts
  \/ \E index \in 0..(MaxContacts - 1), confirmed \in BOOLEAN :
       handleDeleteContact(index, confirmed)

SpecBatch == Init /\ [][NextBatch]_vars

----------------------------------------------------------------------------
(* Vocabulary of the properties: the batch that the last import read.       *)

BatchRan == last.op = "add"
BatchLines == split(last.inputValue)
BatchExisting == {last.contacts[i].phone : i \in 1..Len(last.contacts)}

DetectedIn(line) == phoneMatch(line).found
CleanedPhoneOf(line) == stripNonDigits(phoneMatch(line).text)
CleanedNameOf(line) == cleanName(removeFirst(line, phoneMatch(line).text))

\* yields[k]: line k of the batch yields a record, by the acceptance rule
Yields(lines, existing) ==
  LET yields[k \in 1..Len(lines)] ==
        /\ DetectedIn(lines[k])
        /\ CleanedNameOf(lines[k]) # <<>>
        /\ CleanedPhoneOf(lines[k]) # <<>>
        /\ CleanedPhoneOf(lines[k]) \notin existing
        /\ \A j \in 1..(k - 1) :
             yields[j] => CleanedPhoneOf(lines[j]) # CleanedPhoneOf(lines[k])
  IN  yields

\* the records of the yielding lines, in line order
RECURSIVE RecordsFrom(_, _, _)
RecordsFrom(lines, yields, k) ==
  IF k > Len(lines) THEN <<>>
  ELSE (IF yields[k]
        THEN <<[name |-> CleanedNameOf(lines[k]), phone |-> CleanedPhoneOf(lines[k])]>>
        ELSE <<>>) \o RecordsFrom(lines, yields, k + 1)

AllDigits(s) == \A k \in 1..Len(s) : s[k] \in 48..57

----------------------------------------------------------------------------
\* C1: no two records of the collection have the same phone, in every state
\* reached from the empty collection by imports, edits, saves, cancels and
\* deletes.
C1_PhoneUnique ==
  \A i, j \in 1..Len(contacts) : i # j => contacts[i].phone # contacts[j].phone

\* an accepted save changed a phone in a collection of several records
C1_Witness ==
  /\ last.op = "save" /\ last.result = "ok"
  /\ Len(contacts) >= 2
  /\ trim(last.editedContact.phone) # last.contacts[last.editingIndex + 1].phone

\* C2: the collection is in ascending order by name under the comparator: no
\* record compares greater than the record after it.
C2_Sorted ==
  \A i \in 1..(Len(contacts) - 1) :
    localeCompare(contacts[i].name, contacts[i + 1].name) <= 0

\* an import whose new records did not stay at the end of the collection
C2_Witness ==
  /\ BatchRan /\ last.result = "ok"
  /\ contacts # last.contacts \o last.newContacts

\* C3: the new records of a batch are exactly the records of the lines that
\* have a detected phone, a non-empty cleaned name, a non-empty cleaned phone
\* that is neither in the collection nor the phone of an earlier accepted
\* line; so no new phone is an existing one and no two new phones are equal.
C3_Acceptance ==
  (BatchRan /\ last.result # "empty") =>
    /\ last.newContacts =
         RecordsFrom(BatchLines, Yields(BatchLines, BatchExisting), 1)
    /\ \A i \in 1..Len(last.newContacts) :
         /\ last.newContacts[i].phone \notin BatchExisting
         /\ \A j \in 1..Len(last.newContacts) :
              i # j => last.newContacts[i].phone # last.newContacts[j].phone

\* two lines with the same digits, punctuated differently, gave one record,
\* into a collection that already held records
C3_Witness ==
  /\ BatchRan /\ last.result = "ok"
  /\ last.contacts # <<>>
  /\ Len(BatchLines) = 2
  /\ DetectedIn(BatchLines[1]) /\ DetectedIn(BatchLines[2])
  /\ phoneMatch(BatchLines[1]).text # phoneMatch(BatchLines[2]).text
  /\ CleanedPhoneOf(BatchLines[1]) = CleanedPhoneOf(BatchLines[2])
  /\ CleanedNameOf(BatchLines[2]) # <<>>
  /\ Len(last.newContacts) = 1

\* the words of C4: run characters, letters, runs of 7 or more
C4_RunChar(c) == c \in 48..57 \/ isWhiteSpace(c) \/ c = 45
C4_Letter(c) == isLatin(c) \/ isArabic(c)
C4_Run(line, i, j) ==
  /\ i <= j
  /\ \A k \in i..j : C4_RunChar(line[k])
  /\ (i = 1 \/ ~C4_RunChar(line[i - 1]))
  /\ (j = Len(line) \/ ~C4_RunChar(line[j + 1]))
C4_LongRun(line, i, j) == C4_Run(line, i, j) /\ j - i + 1 >= 7
C4_HasLetter(line) == \E k \in 1..Len(line) : C4_Letter(line[k])

\* C4 as stated: a text with a line that holds a run of 7 or more
\* digit/space/hyphen characters and a letter, imported into an empty
\* collection, returns at least one record, all phones being digits only.
C4_AsStated ==
  (/\ BatchRan /\ last.contacts = <<>> /\ last.inputValue # <<>>
   /\ \E n \in 1..Len(BatchLines) :
        /\ \E i, j \in 1..Len(BatchLines[n]) : C4_LongRun(BatchLines[n], i, j)
        /\ C4_HasLetter(BatchLines[n]))
  => /\ Len(last.newContacts) >= 1
     /\ \A r \in 1..Len(last.newContacts) : AllDigits(last.newContacts[r].phone)

\* the first long run of the line holds a digit, and the line holds a letter
C4_GoodLine(line) ==
  /\ \E i, j \in 1..Len(line) :
       /\ C4_LongRun(line, i, j)
       /\ \A i2, j2 \in 1..Len(line) : C4_LongRun(line, i2, j2) => i <= i2
       /\ \E k \in i..j : line[k] \in 48..57
  /\ C4_HasLetter(line)

\* C4 (amended): a text with a line whose first run of 7 or more
\* digit/space/hyphen characters holds a digit and which holds a letter,
\* imported into an empty collection, returns at least one record; and every
\* phone an import returns is digits only.
C4_Amended ==
  BatchRan =>
    /\ (last.contacts = <<>> /\ \E n \in 1..Len(BatchLines) : C4_GoodLine(BatchLines[n]))
         => (last.result = "ok" /\ Len(last.newContacts) >= 1 /\ contacts # <<>>)
    /\ \A r \in 1..Len(last.newContacts) : AllDigits(last.newContacts[r].phone)

\* an import into the empty collection of a text with a good line after a
\* line that has a long run and a letter but no digit
C4_Witness ==
  /\ BatchRan /\ last.contacts = <<>>
  /\ Len(BatchLines) = 2
  /\ ~C4_GoodLine(BatchLines[1]) /\ DetectedIn(BatchLines[1])
  /\ C4_HasLetter(BatchLines[1])
  /\ C4_GoodLine(BatchLines[2])
  /\ Len(last.newContacts) = 1

\* the words of C5
C5_Blank(text) == \A k \in 1..Len(text) : isWhiteSpace(text[k])
C5_NoneAccepted ==
  \A k \in 1..Len(BatchLines) : ~Yields(BatchLines, BatchExisting)[k]

\* C5: a blank text gives the empty-input diagnostic; a text none of whose
\* lines is accepted gives the no-new-data diagnostic; any other text
\* succeeds.  Both failures leave the collection and the input buffer as
\* they were.
C5_Outcome ==
  BatchRan =>
    IF C5_Blank(last.inputValue)
    THEN /\ last.result = "empty" /\ error = ErrEmptyInput
         /\ last.newContacts = <<>>
         /\ contacts = last.contacts /\ inputValue = last.inputValue
    ELSE IF C5_NoneAccepted
         THEN /\ last.result = "none" /\ error = ErrNoNewData
              /\ contacts = last.contacts /\ inputValue = last.inputValue
         ELSE /\ last.result = "ok" /\ error = ""

\* a non-blank text whose only line repeats a phone of the collection
C5_Witness ==
  /\ BatchRan /\ last.result = "none"
  /\ last.contacts # <<>>
  /\ \E k \in 1..Len(BatchLines) :
       DetectedIn(BatchLines[k]) /\ CleanedPhoneOf(BatchLines[k]) \in BatchExisting
  /\ error = ErrNoNewData /\ contacts = last.contacts

----------------------------------------------------------------------------
(* Vocabulary of the properties: the edit that the last save read.          *)

SaveRan == last.op = "save"
SaveIndex == last.editingIndex
SaveName == trim(last.editedContact.name)
SavePhone == trim(last.editedContact.phone)
SaveOther(j) == j \in 0..(Len(last.contacts) - 1) /\ j # SaveIndex

\* how many times record r occurs in cs
Occurrences(cs, r) == Cardinality({i \in 1..Len(cs) : cs[i] = r})

\* C6: a save whose trimmed phone is the phone of a record at another index
\* reports a phone error, leaves the collection unchanged and keeps the edit
\* open on the same index.
C6_DuplicateRejected ==
  (SaveRan /\ \E j \in 0..(Len(last.contacts) - 1) :
                SaveOther(j) /\ last.contacts[j + 1].phone = SavePhone)
  => /\ last.result = "rejected"
     /\ editError.phone # ""
     /\ contacts = last.contacts
     /\ storage = last.contacts
     /\ editingIndex = SaveIndex

\* a save of a phone of at least 7 digits that another record holds
C6_Witness ==
  /\ SaveRan
  /\ Len(SavePhone) >= 7
  /\ \E j \in 0..(Len(last.contacts) - 1) :
       SaveOther(j) /\ last.contacts[j + 1].phone = SavePhone
  /\ editError.phone = ErrPhoneTaken

\* C7 as stated: a save of a record exactly as handleEdit copied it is
\* accepted without field errors and leaves the collection as it was.
C7_NoOpSave ==
  (SaveRan /\ last.editedContact = last.contacts[SaveIndex + 1])
  => /\ last.result = "ok"
     /\ editError = NoErrors
     /\ contacts = last.contacts

\* C8 as stated: every name of the collection is non-empty, has no white
\* space at either end, and holds only Latin letters, characters of
\* U+0600-U+06FF and white space.
C8_NamesWellFormed ==
  \A i \in 1..Len(contacts) :
    LET name == contacts[i].name
    IN  /\ name # <<>>
        /\ ~isWhiteSpace(name[1]) /\ ~isWhiteSpace(name[Len(name)])
        /\ \A k \in 1..Len(name) :
             \/ name[k] \in (65..90) \cup (97..122)
             \/ name[k] \in 1536..1791
             \/ isWhiteSpace(name[k])

\* C9: every phone of the collection is a non-empty string of digits, and
\* the record an accepted save writes has a phone of at least 7 digits.
C9_PhonesWellFormed ==
  /\ \A i \in 1..Len(contacts) :
       contacts[i].phone # <<>> /\ AllDigits(contacts[i].phone)
  /\ (SaveRan /\ last.result = "ok") =>
       \E i \in 1..Len(contacts) :
         /\ contacts[i] = [name |-> SaveName, phone |-> SavePhone]
         /\ Len(contacts[i].phone) >= 7

\* an accepted save wrote a typed phone beside an imported phone shorter than 7
C9_Witness ==
  /\ SaveRan /\ last.result = "ok"
  /\ SavePhone # last.contacts[SaveIndex + 1].phone
  /\ \E i \in 1..Len(contacts) : Len(contacts[i].phone) < 7

\* the words of C10: the rules on the trimmed pair, the collection expected
C10_NameOk == SaveName # <<>>
C10_PhoneRule ==
  IF SavePhone = <<>> THEN ErrPhoneEmpty
  ELSE IF Len(SavePhone) < 7 THEN ErrPhoneShort
  ELSE IF \E j \in 0..(Len(last.contacts) - 1) :
            SaveOther(j) /\ last.contacts[j + 1].phone = SavePhone
       THEN ErrPhoneTaken
       ELSE ""

C10_Replaced ==
  [last.contacts EXCEPT ![SaveIndex + 1] = [name |-> SaveName, phone |-> SavePhone]]

\* C10: a save is accepted, with no field error, exactly when the trimmed
\* name is non-empty and the trimmed phone is non-empty, of length 7 or more
\* and no phone of a record at another index; a rejected save reports the
\* name rule and the first violated phone rule (empty, too short, duplicate);
\* an accepted save replaces the edited record by the trimmed pair, keeps
\* every other record and the size, re-sorts, and leaves edit mode.
C10_SaveContract ==
  SaveRan =>
    /\ last.result = "ok" <=> (C10_NameOk /\ C10_PhoneRule = "")
    /\ last.result = "ok" <=> editError = NoErrors
    /\ last.result = "rejected" =>
         /\ editError.name = (IF C10_NameOk THEN "" ELSE ErrNameEmpty)
         /\ editError.phone = C10_PhoneRule
         /\ contacts = last.contacts /\ editingIndex = SaveIndex
    /\ last.result = "ok" =>
         /\ Len(contacts) = Len(last.contacts)
         /\ \A i \in 1..Len(contacts) :
              /\ Occurrences(contacts, contacts[i]) = Occurrences(C10_Replaced, contacts[i])
              /\ Occurrences(contacts, C10_Replaced[i]) = Occurrences(C10_Replaced, C10_Replaced[i])
         /\ \A i \in 1..(Len(contacts) - 1) :
              localeCompare(contacts[i].name, contacts[i + 1].name) <= 0
         /\ editingIndex = NULL

\* an accepted save of a changed record that the re-sort moved to another index
C10_Witness ==
  /\ SaveRan /\ last.result = "ok"
  /\ Len(contacts) >= 2
  /\ last.contacts[SaveIndex + 1] # C10_Replaced[SaveIndex + 1]
  /\ contacts # C10_Replaced

----------------------------------------------------------------------------
\* C11: a successful import only adds: every record of the collection before
\* is kept, the accepted records of the batch are added and nothing else, the
\* size grows by the number accepted, the collection is sorted, the
\* diagnostic is cleared and the input buffer is emptied.
C11_OnlyAdds ==
  (BatchRan /\ last.result = "ok") =>
    LET before == last.contacts
        added == RecordsFrom(BatchLines, Yields(BatchLines, BatchExisting), 1)
    IN  /\ Len(contacts) = Len(before) + Len(added)
        /\ \A i \in 1..Len(before) :
             Occurrences(contacts, before[i]) = Occurrences(before, before[i])
        /\ \A i \in 1..Len(added) : Occurrences(contacts, added[i]) = 1
        /\ \A i \in 1..Len(contacts) :
             \/ \E k \in 1..Len(before) : contacts[i] = before[k]
             \/ \E k \in 1..Len(added) : contacts[i] = added[k]
        /\ \A i \in 1..(Len(contacts) - 1) :
             localeCompare(contacts[i].name, contacts[i + 1].name) <= 0
        /\ storage = contacts
        /\ error = ""
        /\ inputValue = <<>>

\* an import of two new records into a collection that held one
C11_Witness ==
  /\ BatchRan /\ last.result = "ok"
  /\ Len(last.contacts) = 1
  /\ Len(last.newContacts) = 2
  /\ Len(contacts) = 3

----------------------------------------------------------------------------
\* the words of C12: a phone-like substring i..j of a line is an optional '+'
\* followed by digits, white space or hyphens, that no character of the line
\* extends on either side
C12_Plus(line, i) == line[i] = 43
C12_PhoneLike(line, i, j) ==
  /\ 1 <= i /\ i <= j /\ j <= Len(line)
  /\ \A k \in (i + 1)..j : C4_RunChar(line[k])
  /\ C12_Plus(line, i) \/ C4_RunChar(line[i])
  /\ ~C12_Plus(line, i) => (i = 1 \/ ~(C4_RunChar(line[i - 1]) \/ C12_Plus(line, i - 1)))
  /\ j = Len(line) \/ ~C4_RunChar(line[j + 1])

\* the length of the substring, with and without its leading '+'
C12_Span(line, i, j) == j - i + 1
C12_RunSpan(line, i, j) == IF C12_Plus(line, i) THEN j - i ELSE j - i + 1

\* C12 as stated: the phone detected in a line is the first phone-like
\* substring whose length, the leading '+' counted, is 7 or more, and a line
\* is skipped exactly when it has none.
C12_AsStated ==
  (BatchRan /\ last.result # "empty") =>
    \A n \in 1..Len(BatchLines) :
      LET line == BatchLines[n]
          hit(i, j) == C12_PhoneLike(line, i, j) /\ C12_Span(line, i, j) >= 7
      IN  /\ DetectedIn(line) <=> \E i, j \in 1..Len(line) : hit(i, j)
          /\ \A i, j \in 1..Len(line) :
               (hit(i, j) /\ \A i2, j2 \in 1..Len(line) : hit(i2, j2) => i <= i2)
                 => phoneMatch(line).text = SubSeq(line, i, j)

\* C12 (amended): the phone detected in a line is the first phone-like
\* substring that has 7 or more digits, white-space characters or hyphens
\* after its optional leading '+'; a line with no such substring is skipped
\* and adds no record, so '+' followed by six digits is not detected.
C12_Detection ==
  (BatchRan /\ last.result # "empty") =>
    /\ \A n \in 1..Len(BatchLines) :
         LET line == BatchLines[n]
             hit(i, j) == C12_PhoneLike(line, i, j) /\ C12_RunSpan(line, i, j) >= 7
         IN  /\ DetectedIn(line) <=> \E i, j \in 1..Len(line) : hit(i, j)
             /\ \A i, j \in 1..Len(line) :
                  (hit(i, j) /\ \A i2, j2 \in 1..Len(line) : hit(i2, j2) => i <= i2)
                    => phoneMatch(line).text = SubSeq(line, i, j)
    /\ Len(last.newContacts) <=
         Cardinality({n \in 1..Len(BatchLines) : DetectedIn(BatchLines[n])})
    /\ (\A n \in 1..Len(BatchLines) : ~DetectedIn(BatchLines[n])) =>
         (last.result = "none" /\ contacts = last.contacts)

\* a batch of a line whose phone starts with '+' and was detected, and a line
\* whose only phone-like substring is '+' and six digits and was skipped
C12_Witness ==
  /\ BatchRan /\ last.result = "ok"
  /\ Len(BatchLines) = 2
  /\ DetectedIn(BatchLines[1]) /\ phoneMatch(BatchLines[1]).text[1] = 43
  /\ ~DetectedIn(BatchLines[2])
  /\ \E i \in 1..Len(BatchLines[2]) :
       /\ C12_PhoneLike(BatchLines[2], i, Len(BatchLines[2]))
       /\ C12_Plus(BatchLines[2], i)
       /\ C12_Span(BatchLines[2], i, Len(BatchLines[2])) = 7
  /\ Len(last.newContacts) = 1

----------------------------------------------------------------------------
\* C13: editingIndex is null or an index of the collection; while a row is
\* edited the only handlers that run are typing, save and cancel (import,
\* delete, export and another edit are disabled), and the collection changes
\* only by an accepted save; a cancel leaves the collection unchanged and
\* ends edit mode.
C13_EditExclusive ==
  /\ [](editingIndex = NULL \/ editingIndex \in 0..(Len(contacts) - 1))
  /\ [](last.op = "cancel" => (editingIndex = NULL /\ contacts = last.contacts))
  /\ [][editingIndex # NULL =>
          /\ last'.op \in {"type", "save", "cancel"}
          /\ contacts' = contacts \/ (last'.op = "save" /\ last'.result = "ok")
          /\ editingIndex' \in {editingIndex, NULL}]_vars

\* a row of a collection of several records is being edited after a rejected
\* save, with a text waiting in the input buffer
C13_Witness ==
  /\ editingIndex # NULL
  /\ last.op = "save" /\ last.result = "rejected"
  /\ Len(contacts) >= 2
  /\ inputValue # <<>>

====
